---- MODULE Spec2Model ----
(***************************************************************************)
(* Model of scripts.py: the two pandas transforms clean_active and         *)
(* clean_order, the row-by-row sink write_to_netezza, and the module-level *)
(* pipeline that reads the four extracts, transforms them and loads the    *)
(* two results over one nzpy connection.                                   *)
(*                                                                         *)
(* Values.  A cell of an ID column is [t, v]: t = "int" with v = <<n>>     *)
(* for the integer n, t = "str" with v the sequence of the decimal digits  *)
(* of the string.  A date string is [f, a, b, c]: f = "sl" is the text     *)
(* "a/b/c", f = "iso" is the text "a-b-c" (zero padded, a the year).  A    *)
(* Timestamp is [y, m, d].  A DataFrame is [cols, rows], rows a sequence   *)
(* of functions from cols to cells.                                        *)
(***************************************************************************)
EXTENDS Integers, Sequences, FiniteSets, TLC

\* ------------------------------------------------------------------ bounds
MaxActive == 2
MaxCustomer == 2
MaxOrder == 2
MaxService == 2
MaxRuns == 2

\* ------------------------------------------------------------------ cells
NaN == "NaN"

IntCell(n) == [t |-> "int", v |-> <<n>>]
StrCell(s) == [t |-> "str", v |-> s]

RECURSIVE Digits(_)
\* str(n) for a non-negative int: its decimal digits, most significant first
Digits(n) == IF n < 10 THEN <<n>> ELSE Append(Digits(n \div 10), n % 10)

\* the cell left as it is: the column keeps its type
astype_str_none(x) == x

\* Series.astype(str), one cell
astype_str(x) == IF x.t = "int" THEN StrCell(Digits(x.v[1])) ELSE x

\* ------------------------------------------------------------------ dates
Slash(a, b, c) == [f |-> "sl", a |-> a, b |-> b, c |-> c]
Iso(y, m, d) == [f |-> "iso", a |-> y, b |-> m, c |-> d]
Timestamp(y, m, d) == [y |-> y, m |-> m, d |-> d]
\* the argument date=None
NoDate == [f |-> "none", a |-> 0, b |-> 0, c |-> 0]

IsLeap(y) == (y % 4 = 0 /\ y % 100 # 0) \/ y % 400 = 0

DaysInMonth(y, m) ==
    IF m = 2 THEN (IF IsLeap(y) THEN 29 ELSE 28)
    ELSE IF m \in {4, 6, 9, 11} THEN 30 ELSE 31

ValidYMD(y, m, d) == m \in 1..12 /\ d >= 1 /\ d <= DaysInMonth(y, m)

\* pd.to_datetime(s, format='%d/%m/%Y'): does the text parse
ParsesDMY(s) == s.f = "sl" /\ ValidYMD(s.c, s.b, s.a)

\* pd.to_datetime(s, format='%d/%m/%Y')
to_datetime_dmy(s) == Timestamp(s.c, s.b, s.a)

\* pd.to_datetime(s) without a format: ISO text as year-month-day, slash text
\* month first, day first when the first number cannot be a month
Parses(s) ==
    IF s.f = "iso" THEN ValidYMD(s.a, s.b, s.c)
    ELSE ValidYMD(s.c, s.a, s.b) \/ ValidYMD(s.c, s.b, s.a)

to_datetime(s) ==
    IF s.f = "iso" THEN Timestamp(s.a, s.b, s.c)
    ELSE IF ValidYMD(s.c, s.a, s.b) THEN Timestamp(s.c, s.a, s.b)
    ELSE Timestamp(s.c, s.b, s.a)

\* Timestamp.strftime('%Y-%m-%d')
strftime(ts) == Iso(ts.y, ts.m, ts.d)

\* ts - pd.DateOffset(days=1)
MinusOneDay(ts) ==
    IF ts.d > 1 THEN Timestamp(ts.y, ts.m, ts.d - 1)
    ELSE IF ts.m > 1 THEN Timestamp(ts.y, ts.m - 1, DaysInMonth(ts.y, ts.m - 1))
    ELSE Timestamp(ts.y - 1, 12, 31)

\* Python's <= on two 'YYYY-MM-DD' strings: character by character, which on
\* zero-padded fields is field by field
StrLE(s, u) ==
    \/ s.a < u.a
    \/ s.a = u.a /\ s.b < u.b
    \/ s.a = u.a /\ s.b = u.b /\ s.c <= u.c

\* ------------------------------------------------------------------ frames
Frame(cols, rows) == [cols |-> cols, rows |-> rows]
\* a name that is not bound to a frame yet
NoFrame == Frame({}, <<>>)

\* DataFrame.rename(columns={old: new}): a new frame, the argument untouched;
\* a name that is not a column is ignored
rename(df, old, new) ==
    IF old \notin df.cols THEN df
    ELSE Frame((df.cols \ {old}) \cup {new},
               [i \in DOMAIN df.rows |->
                  [c \in (df.cols \ {old}) \cup {new} |->
                     IF c = new THEN df.rows[i][old] ELSE df.rows[i][c]]])

\* df[col], a Series
Col(df, col) == [i \in DOMAIN df.rows |-> df.rows[i][col]]

\* df[col] = vals, on the frame itself
SetCol(df, col, vals) ==
    Frame(df.cols, [i \in DOMAIN df.rows |-> [df.rows[i] EXCEPT ![col] = vals[i]]])

\* Series.astype(str)
astype(ser) == [i \in DOMAIN ser |-> astype_str(ser[i])]

\* pd.to_datetime(Series, format='%d/%m/%Y')
to_datetime_dmy_series(ser) == [i \in DOMAIN ser |-> to_datetime_dmy(ser[i])]

\* pd.to_datetime(Series)
to_datetime_series(ser) == [i \in DOMAIN ser |-> to_datetime(ser[i])]

\* Series.dt.strftime('%Y-%m-%d')
dt_strftime(ser) == [i \in DOMAIN ser |-> strftime(ser[i])]

RECURSIVE MaskRows(_, _)
MaskRows(rows, mask) ==
    IF rows = <<>> THEN <<>>
    ELSE (IF Head(mask) THEN <<Head(rows)>> ELSE <<>>) \o MaskRows(Tail(rows), Tail(mask))

\* df[mask], mask a boolean Series
Mask(df, mask) == Frame(df.cols, MaskRows(df.rows, mask))

\* DataFrame.drop(col, axis=1)
drop(df, col) ==
    Frame(df.cols \ {col},
          [i \in DOMAIN df.rows |-> [c \in df.cols \ {col} |-> df.rows[i][c]]])

RECURSIVE DedupRows(_, _, _)
DedupRows(rows, key, seen) ==
    IF rows = <<>> THEN <<>>
    ELSE IF Head(rows)[key] \in seen THEN DedupRows(Tail(rows), key, seen)
    ELSE <<Head(rows)>> \o DedupRows(Tail(rows), key, seen \cup {Head(rows)[key]})

\* every row kept
drop_duplicates_keepall(df, key) == df

\* DataFrame.drop_duplicates(subset=[key]): keep='first'
drop_duplicates(df, key) == Frame(df.cols, DedupRows(df.rows, key, {}))

SameKey(l, r, on) == \A k \in on : l[k] = r[k]

\* the rows one left row contributes to an inner merge
MergeRow_inner(l, right, on) ==
    LET hits == SelectSeq(right.rows, LAMBDA r : SameKey(l, r, on))
        extra == right.cols \ on
    IN [j \in DOMAIN hits |->
          [c \in DOMAIN l \cup extra |-> IF c \in DOMAIN l THEN l[c] ELSE hits[j][c]]]

\* the rows one left row contributes to a left merge
MergeRow(l, right, on) ==
    LET hits == SelectSeq(right.rows, LAMBDA r : SameKey(l, r, on))
        extra == right.cols \ on
    IN IF hits = <<>>
       THEN << [c \in DOMAIN l \cup extra |-> IF c \in DOMAIN l THEN l[c] ELSE NaN] >>
       ELSE [j \in DOMAIN hits |->
               [c \in DOMAIN l \cup extra |->
                  IF c \in DOMAIN l THEN l[c] ELSE hits[j][c]]]

RECURSIVE MergeRows(_, _, _)
MergeRows(lrows, right, on) ==
    IF lrows = <<>> THEN <<>>
    ELSE MergeRow(Head(lrows), right, on) \o MergeRows(Tail(lrows), right, on)

\* pd.merge(left, right, on=on, how='left')
merge(left, right, on) ==
    Frame(left.cols \cup right.cols, MergeRows(left.rows, right, on))

\* -------------------------------------------------------------- transforms
\* active['SNAPSHOT_DATE'] <= date_gap.strftime('%Y-%m-%d'), one row
NotAfter(r, date_gap) == StrLE(r["SNAPSHOT_DATE"], strftime(date_gap))

\* the status compared without regard to case
IsActive_anycase(r) == r["SUBSCRIPTION_STATUS"] \in {"active", "Active"}

\* active['SUBSCRIPTION_STATUS'] == 'active', one row
IsActive(r) == r["SUBSCRIPTION_STATUS"] = "active"

Raise(customer_) == [raised |-> TRUE, customer |-> customer_, result |-> NoFrame]

\* The caller's wall clock is `today`; `date` is the optional argument.  The
\* result carries the customer frame as the caller sees it after the call.
clean_active(active_, customer_, date_, today_) ==
    LET renamed == rename(active_, "REPORT_DATE", "SNAPSHOT_DATE")
        ids == {"CUSTOMER_ID", "SERVICE_ID", "SERVICE_NAME"}
        a1 == SetCol(SetCol(SetCol(renamed,
                  "CUSTOMER_ID", astype(Col(renamed, "CUSTOMER_ID"))),
                  "SERVICE_ID", astype(Col(renamed, "SERVICE_ID"))),
                  "SERVICE_NAME", astype(Col(renamed, "SERVICE_NAME")))
        a2 == SetCol(a1, "SNAPSHOT_DATE",
                     dt_strftime(to_datetime_dmy_series(Col(a1, "SNAPSHOT_DATE"))))
        date_gap == MinusOneDay(today_)
        a3 == Mask(a2, [i \in DOMAIN a2.rows |-> NotAfter(a2.rows[i], date_gap)])
        a4 == Mask(a3, [i \in DOMAIN a3.rows |-> IsActive(a3.rows[i])])
        a5 == drop(a4, "SUBSCRIPTION_STATUS")
        c1 == SetCol(customer_, "CUSTOMER_ID", astype(Col(customer_, "CUSTOMER_ID")))
        c2 == drop_duplicates(c1, "CUSTOMER_ID")
        c3 == drop(c2, "REPORT_DATE")
        final_active == merge(a5, c3, {"CUSTOMER_ID"})
    IN IF date_ # NoDate /\ ~Parses(date_) THEN Raise(customer_)
       ELSE IF ~(ids \subseteq renamed.cols) THEN Raise(customer_)
       ELSE IF "SNAPSHOT_DATE" \notin a1.cols THEN Raise(customer_)
       ELSE IF \E i \in DOMAIN a1.rows : ~ParsesDMY(a1.rows[i]["SNAPSHOT_DATE"])
            THEN Raise(customer_)
       ELSE IF "SUBSCRIPTION_STATUS" \notin a3.cols THEN Raise(customer_)
       ELSE IF "CUSTOMER_ID" \notin customer_.cols THEN Raise(customer_)
       ELSE IF "REPORT_DATE" \notin c2.cols THEN Raise(c1)
       ELSE [raised |-> FALSE, customer |-> c1, result |-> final_active]

RaiseOrder(order_, service_) ==
    [raised |-> TRUE, order |-> order_, service |-> service_, result |-> NoFrame]

\* The result carries the order and service frames as the caller sees them
\* after the call: both are assigned to in place.
clean_order(order_, service_) ==
    LET o1 == SetCol(order_, "REPORT_DATE",
                     dt_strftime(to_datetime_series(Col(order_, "REPORT_DATE"))))
        s1 == SetCol(service_, "REPORT_DATE",
                     dt_strftime(to_datetime_series(Col(service_, "REPORT_DATE"))))
        s2 == SetCol(s1, "SERVICE_ID", astype(Col(s1, "SERVICE_ID")))
        o2 == SetCol(o1, "SERVICE_ID", astype(Col(o1, "SERVICE_ID")))
        df_clean == merge(o2, s2, {"SERVICE_ID", "REPORT_DATE"})
    IN IF "REPORT_DATE" \notin order_.cols THEN RaiseOrder(order_, service_)
       ELSE IF \E i \in DOMAIN order_.rows : ~Parses(order_.rows[i]["REPORT_DATE"])
            THEN RaiseOrder(order_, service_)
       ELSE IF "REPORT_DATE" \notin service_.cols THEN RaiseOrder(o1, service_)
       ELSE IF \E i \in DOMAIN service_.rows : ~Parses(service_.rows[i]["REPORT_DATE"])
            THEN RaiseOrder(o1, service_)
       ELSE IF "SERVICE_ID" \notin s1.cols THEN RaiseOrder(o1, s1)
       ELSE IF "SERVICE_ID" \notin o1.cols THEN RaiseOrder(o1, s2)
       ELSE [raised |-> FALSE, order |-> o2, service |-> s2, result |-> df_clean]

\* ------------------------------------------------------------------ inputs
SeqsUpTo(S, n) == UNION {[1..k -> S] : k \in 0..n}

ActiveCols == {"REPORT_DATE", "CUSTOMER_ID", "SERVICE_ID", "SERVICE_NAME", "SUBSCRIPTION_STATUS"}
CustomerCols == {"CUSTOMER_ID", "REPORT_DATE", "NAME"}
OrderCols == {"SERVICE_ID", "REPORT_DATE", "QTY"}
ServiceCols == {"SERVICE_ID", "REPORT_DATE", "X"}

ActiveDates == {Slash(1, 1, 2024), Slash(2, 1, 2024), Iso(2024, 1, 1)}
Statuses == {"active", "Active"}
ActiveRows ==
    [REPORT_DATE : ActiveDates, CUSTOMER_ID : {IntCell(1), StrCell(<<2>>)},
     SERVICE_ID : {IntCell(10)}, SERVICE_NAME : {StrCell(<<7>>)},
     SUBSCRIPTION_STATUS : Statuses]
CustomerRows ==
    [CUSTOMER_ID : {IntCell(1), StrCell(<<1>>)}, REPORT_DATE : {Iso(2024, 1, 1)},
     NAME : {"Alice", "Bob"}]
OrderRows ==
    [SERVICE_ID : {IntCell(42), StrCell(<<4, 2>>), StrCell(<<0, 4, 2>>)},
     REPORT_DATE : {Iso(2024, 1, 2), Slash(1, 2, 2024), Slash(13, 13, 2024)}, QTY : {"q"}]
ServiceRows ==
    [SERVICE_ID : {IntCell(42), StrCell(<<4, 2>>)},
     REPORT_DATE : {Iso(2024, 1, 2), Slash(13, 1, 2024)}, X : {"a", "b"}]

\* the wall-clock dates of a call, and the values of the date argument
Todays == {Timestamp(2024, 1, 2), Timestamp(2024, 1, 3)}
DateArgs == {NoDate, Iso(2024, 1, 2)}

\* the extracts a pipeline run finds on disk
ActiveRow(d, c, st) ==
    [REPORT_DATE |-> d, CUSTOMER_ID |-> c, SERVICE_ID |-> IntCell(10),
     SERVICE_NAME |-> StrCell(<<7>>), SUBSCRIPTION_STATUS |-> st]
CustomerRow(c, n) == [CUSTOMER_ID |-> c, REPORT_DATE |-> Iso(2024, 1, 1), NAME |-> n]
OrderRow(sv, d) == [SERVICE_ID |-> sv, REPORT_DATE |-> d, QTY |-> "q"]
ServiceRow(sv, d, x) == [SERVICE_ID |-> sv, REPORT_DATE |-> d, X |-> x]

GoodActive ==
    Frame(ActiveCols, << ActiveRow(Slash(1, 1, 2024), IntCell(1), "active"),
                         ActiveRow(Slash(31, 12, 2023), StrCell(<<2>>), "active"),
                         ActiveRow(Slash(2, 1, 2024), IntCell(1), "active"),
                         ActiveRow(Slash(1, 1, 2024), IntCell(1), "inactive") >>)
GoodCustomer ==
    Frame(CustomerCols, << CustomerRow(IntCell(1), "Alice"), CustomerRow(StrCell(<<1>>), "Bob") >>)
GoodOrder ==
    Frame(OrderCols, << OrderRow(IntCell(42), Iso(2024, 1, 2)),
                        OrderRow(StrCell(<<0, 4, 2>>), Slash(1, 2, 2024)) >>)
GoodService ==
    Frame(ServiceCols, << ServiceRow(StrCell(<<4, 2>>), Slash(1, 2, 2024), "a"),
                          ServiceRow(IntCell(42), Iso(2024, 1, 2), "b") >>)

CsvActive ==
    { GoodActive,
      Frame(ActiveCols, << ActiveRow(Iso(2024, 1, 1), IntCell(1), "active") >>),
      drop(GoodActive, "SUBSCRIPTION_STATUS") }
CsvCustomer == { GoodCustomer, drop(GoodCustomer, "REPORT_DATE") }
CsvOrder ==
    { GoodOrder, Frame(OrderCols, << OrderRow(IntCell(42), Slash(13, 13, 2024)) >>) }
CsvService == { GoodService, drop(GoodService, "SERVICE_ID") }

\* ------------------------------------------------------------------- state
VARIABLES
    csv,           \* the four extracts on disk
    today,         \* the wall-clock date pd.to_datetime('today') returns
    date,          \* the date argument of the last call of clean_active
    active,        \* the caller's four frames
    customer,
    order,
    service,
    active_final,  \* the results of the two transforms
    order_final,
    pc,            \* position of the caller
    failed,        \* the step that raised, "none" while nothing has
    conn,          \* the nzpy connection: open, and the rows of its open transaction
    cur,           \* position of write_to_netezza's loop in df
    db,            \* the committed rows of the two destination tables
    db_start,      \* db as it was when the current run started
    runs,          \* pipeline runs started
    okRuns,        \* pipeline runs that reached the end of the script
    unchanged      \* every run so far found the same extracts on the same date

vars == <<csv, today, date, active, customer, order, service, active_final, order_final,
          pc, failed, conn, cur, db, db_start, runs, okRuns, unchanged>>

sinkVars == <<csv, failed, conn, cur, db, db_start, runs, okRuns, unchanged>>

NoConn == [open |-> FALSE, pending |-> <<>>]
EmptyDb == [active_final |-> <<>>, order_final |-> <<>>]

InitSink ==
    /\ failed = "none"
    /\ conn = NoConn
    /\ cur = 0
    /\ db = EmptyDb
    /\ db_start = EmptyDb
    /\ runs = 0
    /\ okRuns = 0
    /\ unchanged = TRUE

NoCsv == [active |-> NoFrame, customer |-> NoFrame, order |-> NoFrame, service |-> NoFrame]

\* ------------------------------------------------ clean_active, called alone
InitActive ==
    /\ today \in Todays
    /\ date = NoDate
    /\ active \in {Frame(ActiveCols, r) : r \in SeqsUpTo(ActiveRows, MaxActive)}
    /\ customer \in {Frame(CustomerCols, r) : r \in SeqsUpTo(CustomerRows, MaxCustomer)}
    /\ csv = [NoCsv EXCEPT !.active = active, !.customer = customer]
    /\ order = NoFrame
    /\ service = NoFrame
    /\ active_final = NoFrame
    /\ order_final = NoFrame
    /\ pc = "read"
    /\ InitSink

\* active_final = clean_active(active, customer, d) returns
CallCleanActive(d) ==
    LET r == clean_active(active, customer, d, today)
    IN /\ pc = "read"
       /\ ~r.raised
       /\ date' = d
       /\ customer' = r.customer
       /\ active_final' = r.result
       /\ pc' = "cleaned_active"
       /\ UNCHANGED <<today, active, order, service, order_final>>
       /\ UNCHANGED sinkVars

\* clean_active(active, customer, d) raises
CallCleanActiveRaises(d) ==
    LET r == clean_active(active, customer, d, today)
    IN /\ pc = "read"
       /\ r.raised
       /\ date' = d
       /\ customer' = r.customer
       /\ pc' = "aborted"
       /\ UNCHANGED <<today, active, order, service, active_final, order_final>>
       /\ UNCHANGED sinkVars

NextActive ==
    \/ \E d \in DateArgs : CallCleanActive(d)
    \/ \E d \in DateArgs : CallCleanActiveRaises(d)

SpecActive == InitActive /\ [][NextActive]_vars

\* ------------------------------------------------- clean_order, called alone
InitOrder ==
    /\ today = Timestamp(2024, 1, 3)
    /\ date = NoDate
    /\ active = NoFrame
    /\ customer = NoFrame
    /\ order \in {Frame(OrderCols, r) : r \in SeqsUpTo(OrderRows, MaxOrder)}
    /\ service \in {Frame(ServiceCols, r) : r \in SeqsUpTo(ServiceRows, MaxService)}
    /\ csv = [NoCsv EXCEPT !.order = order, !.service = service]
    /\ active_final = NoFrame
    /\ order_final = NoFrame
    /\ pc = "cleaned_active"
    /\ InitSink

\* order_final = clean_order(order, service) returns
CallCleanOrder ==
    LET r == clean_order(order, service)
    IN /\ pc = "cleaned_active"
       /\ ~r.raised
       /\ order' = r.order
       /\ service' = r.service
       /\ order_final' = r.result
       /\ pc' = "cleaned_order"
       /\ UNCHANGED <<today, date, active, customer, active_final>>
       /\ UNCHANGED sinkVars

\* clean_order(order, service) raises
CallCleanOrderRaises ==
    LET r == clean_order(order, service)
    IN /\ pc = "cleaned_active"
       /\ r.raised
       /\ order' = r.order
       /\ service' = r.service
       /\ pc' = "aborted"
       /\ UNCHANGED <<today, date, active, customer, active_final, order_final>>
       /\ UNCHANGED sinkVars

NextOrder == CallCleanOrder \/ CallCleanOrderRaises

SpecOrder == InitOrder /\ [][NextOrder]_vars

\* ------------------------------------------------------------ the pipeline
Extracts == [active : CsvActive, customer : CsvCustomer, order : CsvOrder, service : CsvService]

Init ==
    /\ csv \in Extracts
    /\ today \in Todays
    /\ date = NoDate
    /\ active = NoFrame
    /\ customer = NoFrame
    /\ order = NoFrame
    /\ service = NoFrame
    /\ active_final = NoFrame
    /\ order_final = NoFrame
    /\ pc = "start"
    /\ InitSink

\* the four pd.read_csv calls of one run of the script
ReadCsv ==
    /\ pc = "start"
    /\ runs < MaxRuns
    /\ runs' = runs + 1
    /\ active' = csv.active
    /\ customer' = csv.customer
    /\ order' = csv.order
    /\ service' = csv.service
    /\ db_start' = db
    /\ pc' = "read"
    /\ UNCHANGED <<csv, today, date, active_final, order_final, failed, conn, cur, db, okRuns, unchanged>>

\* active_final = clean_active(active, customer)
CleanActive ==
    LET r == clean_active(active, customer, NoDate, today)
    IN /\ pc = "read"
       /\ customer' = r.customer
       /\ IF r.raised
          THEN pc' = "aborted" /\ failed' = "clean_active" /\ UNCHANGED active_final
          ELSE pc' = "cleaned_active" /\ active_final' = r.result /\ UNCHANGED failed
       /\ UNCHANGED <<csv, today, date, active, order, service, order_final, conn, cur, db,
                      db_start, runs, okRuns, unchanged>>

\* clean_order under a try/except that logs and goes on, as the mail loop does
CleanOrder_swallowed ==
    LET r == clean_order(order, service)
    IN /\ pc = "cleaned_active"
       /\ order' = r.order
       /\ service' = r.service
       /\ pc' = "cleaned_order"
       /\ order_final' = r.result
       /\ failed' = IF r.raised THEN "clean_order" ELSE failed
       /\ UNCHANGED <<csv, today, date, active, customer, active_final, conn, cur, db,
                      db_start, runs, okRuns, unchanged>>

\* order_final = clean_order(order, service)
CleanOrder ==
    LET r == clean_order(order, service)
    IN /\ pc = "cleaned_active"
       /\ order' = r.order
       /\ service' = r.service
       /\ IF r.raised
          THEN pc' = "aborted" /\ failed' = "clean_order" /\ UNCHANGED order_final
          ELSE pc' = "cleaned_order" /\ order_final' = r.result /\ UNCHANGED failed
       /\ UNCHANGED <<csv, today, date, active, customer, active_final, conn, cur, db,
                      db_start, runs, okRuns, unchanged>>

\* conn = nzpy.connect(...), then write_to_netezza's cursor and insert_query
Connect ==
    /\ pc = "cleaned_order"
    /\ conn' = [open |-> TRUE, pending |-> <<>>]
    /\ cur' = 1
    /\ pc' = "active_final"
    /\ UNCHANGED <<csv, today, date, active, customer, order, service, active_final,
                   order_final, failed, db, db_start, runs, okRuns, unchanged>>

\* nzpy.connect raises
ConnectRaises ==
    /\ pc = "cleaned_order"
    /\ pc' = "aborted"
    /\ failed' = "connect"
    /\ UNCHANGED <<csv, today, date, active, customer, order, service, active_final,
                   order_final, conn, cur, db, db_start, runs, okRuns, unchanged>>

\* the frame write_to_netezza is loading into table_name
Loading(table_name) == IF table_name = "active_final" THEN active_final ELSE order_final

Tables == {"active_final", "order_final"}

\* cursor.execute on a connection in autocommit mode: the row is committed at once
Execute_autocommit(table_name) ==
    /\ pc = table_name
    /\ cur <= Len(Loading(table_name).rows)
    /\ db' = [db EXCEPT ![table_name] = Append(@, Loading(table_name).rows[cur])]
    /\ cur' = cur + 1
    /\ UNCHANGED <<csv, today, date, active, customer, order, service, active_final,
                   order_final, pc, failed, conn, db_start, runs, okRuns, unchanged>>

\* cursor.execute(insert_query, row): the row joins the connection's open transaction
Execute(table_name) ==
    /\ pc = table_name
    /\ cur <= Len(Loading(table_name).rows)
    /\ conn' = [conn EXCEPT !.pending =
                  Append(@, [table |-> table_name, row |-> Loading(table_name).rows[cur]])]
    /\ cur' = cur + 1
    /\ UNCHANGED <<csv, today, date, active, customer, order, service, active_final,
                   order_final, pc, failed, db, db_start, runs, okRuns, unchanged>>

\* cursor.execute raises: nothing catches it, the script ends
ExecuteRaises(table_name) ==
    /\ pc = table_name
    /\ cur <= Len(Loading(table_name).rows)
    /\ pc' = "aborted"
    /\ failed' = table_name
    /\ UNCHANGED <<csv, today, date, active, customer, order, service, active_final,
                   order_final, conn, cur, db, db_start, runs, okRuns, unchanged>>

RECURSIVE RowsFor(_, _)
\* the rows of a transaction that go to one table, in insertion order
RowsFor(pending, table_name) ==
    IF pending = <<>> THEN <<>>
    ELSE (IF Head(pending).table = table_name THEN <<Head(pending).row>> ELSE <<>>)
         \o RowsFor(Tail(pending), table_name)

\* the tables after a commit that replaces the rows of the loaded table
Committed_replace(d, pending) ==
    [t \in Tables |->
        IF RowsFor(pending, t) = <<>> THEN d[t] ELSE RowsFor(pending, t)]

\* the tables after the connection's open transaction commits
Committed(d, pending) == [t \in Tables |-> d[t] \o RowsFor(pending, t)]

\* one conn.commit() for both loads, after the last row of order_final
Commit_atend(table_name) ==
    /\ pc = table_name
    /\ cur > Len(Loading(table_name).rows)
    /\ db' = IF table_name = "order_final" THEN Committed(db, conn.pending) ELSE db
    /\ conn' = IF table_name = "order_final" THEN [conn EXCEPT !.pending = <<>>] ELSE conn
    /\ cur' = 1
    /\ pc' = IF table_name = "active_final" THEN "order_final" ELSE "done"
    /\ UNCHANGED <<csv, today, date, active, customer, order, service, active_final,
                   order_final, failed, db_start, runs, okRuns, unchanged>>

\* conn.commit() and cursor.close() after the last row; the script goes on to the
\* next load or ends
Commit(table_name) ==
    /\ pc = table_name
    /\ cur > Len(Loading(table_name).rows)
    /\ db' = Committed(db, conn.pending)
    /\ conn' = [conn EXCEPT !.pending = <<>>]
    /\ cur' = 1
    /\ pc' = IF table_name = "active_final" THEN "order_final" ELSE "done"
    /\ UNCHANGED <<csv, today, date, active, customer, order, service, active_final,
                   order_final, failed, db_start, runs, okRuns, unchanged>>

\* conn.commit() raises
CommitRaises(table_name) ==
    /\ pc = table_name
    /\ cur > Len(Loading(table_name).rows)
    /\ pc' = "aborted"
    /\ failed' = table_name
    /\ UNCHANGED <<csv, today, date, active, customer, order, service, active_final,
                   order_final, conn, cur, db, db_start, runs, okRuns, unchanged>>

\* The process ends, after the last statement or on the uncaught exception: its
\* names are gone and the server drops the connection's uncommitted rows.
Exit ==
    /\ pc \in {"done", "aborted"}
    /\ okRuns' = IF pc = "done" THEN okRuns + 1 ELSE okRuns
    /\ conn' = NoConn
    /\ cur' = 0
    /\ active' = NoFrame
    /\ customer' = NoFrame
    /\ order' = NoFrame
    /\ service' = NoFrame
    /\ active_final' = NoFrame
    /\ order_final' = NoFrame
    /\ failed' = "none"
    /\ pc' = "start"
    /\ UNCHANGED <<csv, today, date, db, db_start, runs, unchanged>>

\* Between two runs the extracts on disk are replaced, or the day changes.
NewExtracts ==
    /\ pc = "start"
    /\ runs < MaxRuns
    /\ \E c \in Extracts, t \in Todays :
          /\ <<c, t>> # <<csv, today>>
          /\ csv' = c
          /\ today' = t
    /\ unchanged' = (unchanged /\ runs = 0)
    /\ UNCHANGED <<date, active, customer, order, service, active_final, order_final, pc,
                   failed, conn, cur, db, db_start, runs, okRuns>>

Next ==
    \/ NewExtracts
    \/ ReadCsv
    \/ CleanActive
    \/ CleanOrder
    \/ Connect
    \/ ConnectRaises
    \/ \E t \in Tables : Execute(t)
    \/ \E t \in Tables : ExecuteRaises(t)
    \/ \E t \in Tables : Commit(t)
    \/ \E t \in Tables : CommitRaises(t)
    \/ Exit

Spec == Init /\ [][Next]_vars

\* =================================================================== claims
\* what the formulas below measure, written without the frame operations
Text(x) == IF x.t = "int" THEN Digits(x.v[1]) ELSE x.v

Restrict(r, cols) == [c \in cols |-> r[c]]

RECURSIVE Repeat(_, _)
Repeat(rows, n) == IF n = 0 THEN <<>> ELSE rows \o Repeat(rows, n - 1)

ActiveOutCols == {"SNAPSHOT_DATE", "CUSTOMER_ID", "SERVICE_ID", "SERVICE_NAME"}

\* the positions in ActiveFinal of the rows that read like v
OutLike(v) == {j \in DOMAIN active_final.rows : 
        Restrict(active_final.rows[j], ActiveOutCols) = v}

\* the positions in customer of the rows whose CUSTOMER_ID reads like that of r
CustomersOf(r) ==
    {k \in DOMAIN csv.customer.rows :
        Text(csv.customer.rows[k].CUSTOMER_ID) = Text(r.CUSTOMER_ID)}

\* an extract row of active as it reads in ActiveFinal
NormActive(r) ==
    [SNAPSHOT_DATE |-> Iso(r.REPORT_DATE.c, r.REPORT_DATE.b, r.REPORT_DATE.a),
     CUSTOMER_ID |-> StrCell(Text(r.CUSTOMER_ID)),
     SERVICE_ID |-> StrCell(Text(r.SERVICE_ID)),
     SERVICE_NAME |-> StrCell(Text(r.SERVICE_NAME))]

\* the day before an ISO date string, as an ISO date string
DayBefore(s) == strftime(MinusOneDay(Timestamp(s.a, s.b, s.c)))

Returned == pc = "cleaned_active"

\* ---- C1
\* C1: when clean_active is called with a reference date d, every row of
\* ActiveFinal has SNAPSHOT_DATE <= d - 1 day (so a row dated d is excluded),
\* and an "active" row dated exactly d - 1 day is in ActiveFinal, whatever the
\* wall-clock date is.
C1_WatermarkFollowsReferenceDate ==
    (Returned /\ date # NoDate) =>
        /\ \A j \in DOMAIN active_final.rows :
              StrLE(active_final.rows[j]["SNAPSHOT_DATE"], DayBefore(date))
        /\ \A i \in DOMAIN csv.active.rows :
              (/\ NormActive(csv.active.rows[i]).SNAPSHOT_DATE = DayBefore(date)
               /\ csv.active.rows[i].SUBSCRIPTION_STATUS = "active")
              => \E j \in DOMAIN active_final.rows :
                    Restrict(active_final.rows[j], ActiveOutCols) = NormActive(csv.active.rows[i])

\* ---- C4
\* C4: ActiveFinal holds no more copies of a row than there are rows of active
\* that read like it and have SUBSCRIPTION_STATUS exactly "active": a row with
\* any other status contributes nothing.
C4_OnlyActiveStatus ==
    Returned =>
        \A j \in DOMAIN active_final.rows :
            LET v == Restrict(active_final.rows[j], ActiveOutCols)
            IN Cardinality(OutLike(v))
               <= Cardinality({i \in DOMAIN csv.active.rows :
                                 /\ NormActive(csv.active.rows[i]) = v
                                 /\ csv.active.rows[i].SUBSCRIPTION_STATUS = "active"})

\* a call returned whose input had a row that passes the date filter with a
\* status other than "active", next to a row that is in the result
C4_Witness ==
    /\ Returned
    /\ active_final.rows # <<>>
    /\ \E i \in DOMAIN csv.active.rows :
          /\ csv.active.rows[i].SUBSCRIPTION_STATUS = "Active"
          /\ StrLE(NormActive(csv.active.rows[i]).SNAPSHOT_DATE, strftime(MinusOneDay(today)))

\* ---- C7
\* C7: after any call of clean_active, returned or raised, the caller's active
\* and customer frames are what they were before the call.
C7_InputsUntouched ==
    (pc \in {"cleaned_active", "aborted"}) => (active = csv.active /\ customer = csv.customer)

\* ---- C9
\* the rows the two filters of the call keep
Passes(r) ==
    /\ r.SUBSCRIPTION_STATUS = "active"
    /\ StrLE(NormActive(r).SNAPSHOT_DATE, strftime(MinusOneDay(today)))

\* C9: every row of active that passes the date and status filters is in
\* ActiveFinal exactly once, however many customer rows carry its CUSTOMER_ID
\* as text, and with null customer fields when none does.
C9_EachKeptRowOnce ==
    Returned =>
        /\ Len(active_final.rows)
              = Cardinality({i \in DOMAIN csv.active.rows : Passes(csv.active.rows[i])})
        /\ \A i \in DOMAIN csv.active.rows :
              Passes(csv.active.rows[i]) =>
                 Cardinality(OutLike(NormActive(csv.active.rows[i])))
                 = Cardinality({q \in DOMAIN csv.active.rows :
                                  /\ Passes(csv.active.rows[q])
                                  /\ NormActive(csv.active.rows[q]) = NormActive(csv.active.rows[i])})
        /\ \A j \in DOMAIN active_final.rows :
              LET names == {csv.customer.rows[k].NAME : k \in
                              {k \in DOMAIN csv.customer.rows :
                                 Text(csv.customer.rows[k].CUSTOMER_ID)
                                 = active_final.rows[j]["CUSTOMER_ID"].v}}
              IN IF names = {} THEN active_final.rows[j]["NAME"] = NaN
                 ELSE active_final.rows[j]["NAME"] \in names

\* a call returned for a kept row whose CUSTOMER_ID two customer rows carry, one
\* as a number and one as text, next to a kept row no customer row matches
C9_Witness ==
    /\ Returned
    /\ \E i \in DOMAIN csv.active.rows :
          /\ Passes(csv.active.rows[i])
          /\ Cardinality(CustomersOf(csv.active.rows[i])) = 2
          /\ \E k \in DOMAIN csv.customer.rows : csv.customer.rows[k].CUSTOMER_ID.t = "int"
          /\ \E k \in DOMAIN csv.customer.rows : csv.customer.rows[k].CUSTOMER_ID.t = "str"
    /\ \E i \in DOMAIN csv.active.rows :
          /\ Passes(csv.active.rows[i])
          /\ CustomersOf(csv.active.rows[i]) = {}

\* ---- C5
Joined == pc = "cleaned_order"

\* a date string of an extract as it reads after pd.to_datetime and strftime
NormDate(d) == strftime(to_datetime(d))

\* an extract row of order as it reads in OrderFinal
NormOrder(r) ==
    [SERVICE_ID |-> StrCell(Text(r.SERVICE_ID)), REPORT_DATE |-> NormDate(r.REPORT_DATE),
     QTY |-> r.QTY]

\* the service rows whose key reads like the key of the order row r
Matches(r) ==
    {j \in DOMAIN csv.service.rows :
        /\ Text(csv.service.rows[j].SERVICE_ID) = Text(r.SERVICE_ID)
        /\ NormDate(csv.service.rows[j].REPORT_DATE) = NormDate(r.REPORT_DATE)}

Max(a, b) == IF a >= b THEN a ELSE b

RECURSIVE FanOut(_)
\* the sum of max(1, k) over the rows of order
FanOut(rows) ==
    IF rows = <<>> THEN 0
    ELSE Max(1, Cardinality(Matches(Head(rows)))) + FanOut(Tail(rows))

C6_KeysJoinAsText ==
    Joined =>
        \A i \in DOMAIN csv.order.rows, j \in DOMAIN csv.service.rows :
            (/\ Text(csv.order.rows[i].SERVICE_ID) = Text(csv.service.rows[j].SERVICE_ID)
             /\ NormDate(csv.order.rows[i].REPORT_DATE) = NormDate(csv.service.rows[j].REPORT_DATE))
            => \E k \in DOMAIN order_final.rows :
                  /\ Restrict(order_final.rows[k], OrderCols) = NormOrder(csv.order.rows[i])
                  /\ order_final.rows[k]["X"] = csv.service.rows[j].X

\* the join returned for an order row with the number 42 and a service row with
\* the string "42" on the same day, written differently in the two extracts
C6_Witness ==
    /\ Joined
    /\ \E i \in DOMAIN csv.order.rows, j \in DOMAIN csv.service.rows :
          /\ csv.order.rows[i].SERVICE_ID = IntCell(42)
          /\ csv.service.rows[j].SERVICE_ID = StrCell(<<4, 2>>)
          /\ csv.order.rows[i].REPORT_DATE # csv.service.rows[j].REPORT_DATE
          /\ NormDate(csv.order.rows[i].REPORT_DATE) = NormDate(csv.service.rows[j].REPORT_DATE)

\* ---- C2
\* a run is between its first cursor.execute and the end of its process
InSink == pc \in {"active_final", "order_final", "done", "aborted"} /\ conn.open

\* C2: while a run is at the sink, each destination table holds what it held
\* when the run started plus either none or all of the rows of the run's load
\* into it; a load that raised has none of its rows committed; and the open
\* transaction of the connection holds rows of the load in progress only, so
\* no commit can carry rows of another load.
C2_LoadAllOrNothing ==
    /\ InSink =>
          \A t \in Tables :
             /\ db[t] \in {db_start[t], db_start[t] \o Loading(t).rows}
             /\ failed = t => db[t] = db_start[t]
    /\ \A k \in DOMAIN conn.pending : conn.pending[k].table = (IF pc = "aborted" THEN failed ELSE pc)

\* a load of two rows or more raised after a row was inserted, in a run that
\* started with rows in the table
C2_Witness ==
    /\ pc = "aborted"
    /\ failed \in Tables
    /\ conn.pending # <<>>
    /\ Len(Loading(failed).rows) >= 2
    /\ db_start[failed] # <<>>

\* ---- C3
\* C3: once clean_active or clean_order has raised in a run, the run has no
\* connection, no row in a transaction and no row committed.
C3_NoSinkAfterTransformFailure ==
    failed \in {"clean_active", "clean_order"} =>
        /\ conn = NoConn
        /\ db = db_start

\* clean_order raised, on an unparsable date or on a missing column, in a run
\* that started with rows in both tables
C3_Witness ==
    /\ failed = "clean_order"
    /\ active_final.rows # <<>>
    /\ db_start.active_final # <<>>
    /\ db_start.order_final # <<>>

\* ---- C8
IsPrefix(s, t) == Len(s) <= Len(t) /\ \A i \in DOMAIN s : s[i] = t[i]

\* the two results a run computes from the extracts on disk
Outputs ==
    [active_final |-> clean_active(csv.active, csv.customer, NoDate, today).result.rows,
     order_final |-> clean_order(csv.order, csv.service).result.rows]

\* C8: no step removes or changes a committed row, and when n runs have ended,
\* all of them successful and on the same extracts and date, each table holds
\* the run's output n times over.
C8_AppendOnly ==
    [][/\ \A t \in Tables : IsPrefix(db[t], db'[t])
       /\ (pc' = "start" /\ unchanged' /\ okRuns' = runs')
          => \A t \in Tables : db'[t] = Repeat(Outputs[t], runs)]_vars

\* two successful runs on the same extracts have ended
C8_Witness ==
    /\ pc = "start"
    /\ unchanged
    /\ okRuns = 2
    /\ runs = 2
    /\ Len(db.active_final) >= 4
    /\ Len(db.order_final) >= 4

\* ---- C10
\* C10: a row of order_final is in the connection's transaction only after the
\* load of active_final has committed all its rows, and when the load of
\* order_final raises, active_final keeps those rows and order_final has gained
\* none.
C10_LoadsInSequence ==
    /\ (\E k \in DOMAIN conn.pending : conn.pending[k].table = "order_final")
          => db.active_final = db_start.active_final \o active_final.rows
    /\ (pc = "aborted" /\ failed = "order_final")
          => /\ db.active_final = db_start.active_final \o active_final.rows
             /\ db.order_final = db_start.order_final

\* the load of order_final raised after a row was inserted, the load of
\* active_final having committed rows
C10_Witness ==
    /\ pc = "aborted"
    /\ failed = "order_final"
    /\ conn.pending # <<>>
    /\ active_final.rows # <<>>
    /\ db.active_final # db_start.active_final
====
